---- MODULE Spec2Model ----
(***************************************************************************)
(* A model of the in-process daemon orchestrator of craftstudio:           *)
(* apps/desktop/src-tauri/src/daemon_manager.rs (DaemonManager and the     *)
(* DaemonLogLayer tracing layer).                                          *)
(*                                                                         *)
(* Callers (Tauri command threads) run start/stop/list/get_logs/stop_all   *)
(* against one DaemonManager.  Every mutex critical section that touches   *)
(* only the data its mutex guards is one atomic step; a section that holds *)
(* one mutex while taking another (stop, stop_all) or that spans the whole *)
(* call (the next_index guard of start) is split at the acquisitions.      *)
(***************************************************************************)
EXTENDS Integers, Sequences, FiniteSets, TLC

\* ---------------------------------------------------------------- bounds
NThreads == 2   \* caller threads
MaxCalls == 2   \* start calls begun, in Spec
MaxAlloc == 2   \* start calls begun, in SpecAlloc
MaxBurst == 600 \* tracing events emitted, in SpecLog
MaxEvents == 2  \* tracing events emitted, in SpecSpan
MaxSpans == 3   \* spans in the tracing registry, in SpecSpan
MaxFsCalls == 2 \* start calls begun, in SpecFs

\* ------------------------------------------------------ program constants
LogCap == 500
BaseWsPort == 9091
BaseListenPort == 44001
U16Modulus == 65536

Threads == 1 .. NThreads

VARIABLES
    next_index,    \* DaemonManager.next_index: the u32 behind the mutex
    index_lock,    \* holder of the next_index mutex: 0 free, t a thread, -1 poisoned
    daemons,       \* DaemonManager.daemons: Vec<ManagedDaemon>, as a sequence
    daemons_lock,  \* holder of the daemons mutex: 0 free, t a thread
    logs_lock,     \* holder of the logs mutex across steps: 0 free, -(k+1)
                   \* the log layer inside an event of instance task k
    logs,          \* SharedLogs: HashMap<u32, Vec<LogLine>>, as a function
    tasks,         \* the spawned instance tasks, by instance id
    spans,         \* the tracing registry: span id -> parent, fields, extensions
    pc,            \* each caller's position
    loc,           \* each caller's locals
    last,          \* the latest outcome: the value the most recently completed
                   \* call returned, or what the log layer did with the most
                   \* recent event
    ncalls,        \* start calls begun so far
    nlog,          \* tracing events emitted so far (the arrival number)
    returned,      \* ids returned by successful starts, in order of completion
    stopped,       \* ids for which stop returned Ok
    fs             \* the host: the data directories with their config.json
                   \* and node.key, whether config.json can be written,
                   \* and the ports other processes listen on

vars == <<next_index, index_lock, daemons, daemons_lock, logs_lock, logs,
          tasks, spans, pc, loc, last, ncalls, nlog, returned, stopped, fs>>

\* ------------------------------------------------------------- Option<T>
None == <<>>
Some(v) == <<v>>
IsSome(o) == o # <<>>
UnwrapOr(o, d) == IF o = <<>> THEN d ELSE o[1]

\* ------------------------------------------------------ strings and paths
\* A formatted string is the sequence of its pieces: literal text [s |-> ..]
\* and decimal numbers [n |-> ..].
Txt(s) == [s |-> s]
Num(n) == [n |-> n]

\* format!("/ip4/0.0.0.0/tcp/{}", listen_port), split at '/'
ListenAddrFmt(port) == <<Txt("ip4"), Txt("0.0.0.0"), Txt("tcp"), Num(port)>>
\* dirs::home_dir().join(".craftobj")
PrimaryDataDir == <<Txt("<home>/.craftobj")>>
\* format!("/tmp/craftobj-node-{}", instance_id)
NodeDataDir(id) == <<Txt("/tmp/craftobj-node-"), Num(id)>>
PrimarySocket == <<Txt("/tmp/craftobj.sock")>>
\* format!("/tmp/craftobj-{}.sock", instance_id)
NodeSocket(id) == <<Txt("/tmp/craftobj-"), Num(id), Txt(".sock")>>

\* listen_addr.parse::<Multiaddr>(): /ip4/<host>/<tcp|udp>/<u16>, alone or
\* followed by a protocol that takes no value (/ws, /quic-v1)
ValidMultiaddr(a) ==
    /\ Len(a) \in {4, 5}
    /\ a[1] = Txt("ip4")
    /\ DOMAIN a[2] = {"s"}
    /\ a[3] \in {Txt("tcp"), Txt("udp")}
    /\ DOMAIN a[4] = {"n"}
    /\ a[4].n < U16Modulus
    /\ Len(a) = 5 => a[5] \in {Txt("ws"), Txt("quic-v1")}

\* ------------------------------------------------------------ u16 arithmetic
\* `instance_id as u16` truncates; `a + b` on u16 wraps in a build without
\* overflow checks and panics in a build with them.
AsU16(i) == i % U16Modulus
WrappingAdd(a, b) == (a + b) % U16Modulus
AddOverflows(a, b) == a + b >= U16Modulus

\* The outcomes the build can produce for the additions of start
\* (unwrap_or evaluates 9091 + id eagerly, also under a ws_port override).
BuildOutcomes(index) ==
    IF \/ AddOverflows(BaseWsPort, AsU16(index))
       \/ (index # 0 /\ AddOverflows(BaseListenPort, AsU16(index)))
    THEN {"wrap", "panic"}
    ELSE {"exact"}


\* ------------------------------------------------------- endpoint allocation
\* start, lines 191-216: the values resolved from the counter and the overrides.
InstanceIdAtRegistrySize(index) == Len(daemons)
InstanceIdAt(index) == index

\* let is_primary = *index == 0 (line 191)
IsPrimaryWhenRegistryEmpty(index) == Len(daemons) = 0
IsPrimaryAt(index) == index = 0

WsPortDefault(id) == WrappingAdd(BaseWsPort, AsU16(id))
ListenPortOf(id) ==
    IF id = 0 THEN BaseListenPort ELSE WrappingAdd(BaseListenPort, AsU16(id))

Resolve(cfg, index) ==
    LET instance_id == InstanceIdAt(index)
        is_primary == IsPrimaryAt(index)
        listen_port == ListenPortOf(instance_id)
    IN  [op |-> "start",
         cfg |-> cfg,
         instance_id |-> instance_id,
         is_primary |-> is_primary,
         ws_port |-> UnwrapOr(cfg.ws_port, WsPortDefault(instance_id)),
         listen_port |-> listen_port,
         data_dir |-> UnwrapOr(cfg.data_dir,
                          IF is_primary THEN PrimaryDataDir
                                        ELSE NodeDataDir(instance_id)),
         socket_path |-> UnwrapOr(cfg.socket_path,
                          IF is_primary THEN PrimarySocket
                                        ELSE NodeSocket(instance_id)),
         listen_addr |-> UnwrapOr(cfg.listen_addr, ListenAddrFmt(listen_port)),
         boot_peers |-> <<>>,
         config_write |-> "none",
         buf0 |-> None]

\* Identity::from_secret_bytes of the key load_or_generate_keypair keeps at
\* <data_dir>/node.key: one identity per data directory.
DidOf(data_dir) == [key_of |-> data_dir]

\* DaemonInstance, lines 477-485
InstanceOf(l) ==
    [pid |-> l.instance_id,
     ws_port |-> l.ws_port,
     data_dir |-> l.data_dir,
     socket_path |-> l.socket_path,
     listen_addr |-> l.listen_addr,
     primary |-> l.is_primary,
     did |-> DidOf(l.data_dir)]

\* ------------------------------------------------------------------ registry
IsFinished(pid) == pid \in DOMAIN tasks /\ tasks[pid].st = "done"

\* daemons.retain(|d| !d._handle.is_finished())
RetainFinished(ds) == SelectSeq(ds, LAMBDA d : IsFinished(d.info.pid))
Retain(ds) == SelectSeq(ds, LAMBDA d : ~IsFinished(d.info.pid))

\* A conflict test on the default port of each id instead of the stored one.
PortConflictByDefault(ds, ws_port) ==
    \E i \in 1 .. Len(ds) : WsPortDefault(ds[i].info.pid) = ws_port
\* daemons.iter().any(|d| d.info.ws_port == ws_port)
PortConflict(ds, ws_port) == \E i \in 1 .. Len(ds) : ds[i].info.ws_port = ws_port

\* daemons.iter().position(|d| d.info.pid == pid): 0 when there is none
Position(ds, pid) ==
    IF \E i \in 1 .. Len(ds) : ds[i].info.pid = pid
    THEN CHOOSE i \in 1 .. Len(ds) :
            /\ ds[i].info.pid = pid
            /\ \A j \in 1 .. i - 1 : ds[j].info.pid # pid
    ELSE 0

\* daemons.remove(pos)
RemoveAt(ds, pos) == SubSeq(ds, 1, pos - 1) \o SubSeq(ds, pos + 1, Len(ds))

\* d.abort.abort(): the task is marked; it ends at its next await
Abort(ts, pid) ==
    IF pid \in DOMAIN ts THEN [ts EXCEPT ![pid].aborted = TRUE] ELSE ts

\* the instance tasks whose IPC server is bound to its websocket port
TaskListeners == {tasks[k].ws_port : k \in {j \in DOMAIN tasks : tasks[j].st = "running"}}

\* boot peers, lines 233-249: rsplit('/').next().parse::<u16>().unwrap_or(0)
ParseU16(piece) ==
    IF DOMAIN piece = {"n"} /\ piece.n < U16Modulus THEN piece.n ELSE 0
LastPort(addr) == IF Len(addr) = 0 THEN 0 ELSE ParseU16(addr[Len(addr)])
BootPeerOf(d) == <<Txt("ip4"), Txt("127.0.0.1"), Txt("tcp"), Num(LastPort(d.info.listen_addr))>>
BootPeers(ds) ==
    LET live == Retain(ds) IN [i \in 1 .. Len(live) |-> BootPeerOf(live[i])]

\* --------------------------------------------------------------- file system
\* A data directory that exists holds config.json (None: no file; else the
\* fields start sets, lines 262-268) and may hold node.key.  What else a
\* config.json holds is read and written by craftobj_daemon's load_from and
\* save_to only.
NoDir == [config |-> None, key |-> FALSE]
NoFiles == [files |-> <<>>, config_ro |-> FALSE, listeners |-> {}]
DirOf(files, dir) == IF dir \in DOMAIN files THEN files[dir] ELSE NoDir

\* lines 257-268: the default config of a new data directory
DefaultConfig(l) ==
    [capabilities |-> UnwrapOr(l.cfg.capabilities, <<"client">>),
     listen_port |-> l.listen_port,
     ws_port |-> l.ws_port,
     socket_path |-> Some(l.socket_path),
     max_storage_bytes |-> "10737418240",
     boot_peers |-> l.boot_peers]

\* A config step that rewrites the file on every start.
ConfigWriteAlways(old, l, ro) == IF ro THEN "failed" ELSE "written"
\* lines 256-283: what the config step does: writes when there is no file or
\* there are boot peers, and that write fails when the file cannot be written
ConfigWrite(old, l, ro) ==
    IF old = None \/ l.boot_peers # <<>>
    THEN IF ro THEN "failed" ELSE "written"
    ELSE "kept"

\* lines 256-283: config.json after the config step
ConfigAfter(old, l, ro) ==
    IF ConfigWrite(old, l, ro) # "written" THEN old
    ELSE IF old = None THEN Some(DefaultConfig(l))
    ELSE Some([old[1] EXCEPT !.boot_peers = l.boot_peers])

\* lines 269-273, 280-282: a failed save_to is reported with eprintln! and
\* is no error of start
ConfigWriteErrorFatal(outcome) == IF outcome = "failed" THEN "ConfigWrite" ELSE "none"
ConfigWriteError(outcome) == "none"

\* the steps of lines 286-298 that can fail: create_dir_all fails only for a
\* directory that is not there yet
PrepareFailures(files, dir) ==
    {"none", "KeyError", "InvalidSecret"}
        \cup (IF dir \in DOMAIN files THEN {} ELSE {"IoError"})

\* lines 254-293: the files after the config step, create_dir_all and
\* load_or_generate_keypair, the last of which the given failure lets run
FilesAfter(files, l, ro, failure) ==
    IF failure = "IoError" THEN files
    ELSE LET d0 == DirOf(files, l.data_dir)
             d1 == [d0 EXCEPT !.config = ConfigAfter(d0.config, l, ro)]
             d2 == IF failure = "KeyError" THEN d1 ELSE [d1 EXCEPT !.key = TRUE]
         IN  (l.data_dir :> d2) @@ files

\* --------------------------------------------------------------- log buffers
LogLine(pid, line, is_stderr) == [pid |-> pid, line |-> line, is_stderr |-> is_stderr]

\* v.drain(..v.len() - 500) once v.len() > 500
Trim(v) == IF Len(v) > LogCap THEN SubSeq(v, Len(v) - LogCap + 1, Len(v)) ELSE v

\* on_event, lines 98-108: push and trim, only into an existing buffer
LogAppendOrCreate(lg, id, line) ==
    IF id \in DOMAIN lg THEN [lg EXCEPT ![id] = Trim(Append(@, line))]
                        ELSE (id :> <<line>>) @@ lg
LogAppend(lg, id, line) ==
    IF id \in DOMAIN lg THEN [lg EXCEPT ![id] = Trim(Append(@, line))] ELSE lg

\* the instance task, lines 394-401: push without trimming
LogPush(lg, id, line) ==
    IF id \in DOMAIN lg THEN [lg EXCEPT ![id] = Append(@, line)] ELSE lg

\* logs.remove(&pid)
LogRemove(lg, pid) == [k \in DOMAIN lg \ {pid} |-> lg[k]]

\* get_logs, lines 526-534
GetLogsOffByOne(lg, pid, since) ==
    IF pid \in DOMAIN lg
    THEN IF since < Len(lg[pid]) THEN SubSeq(lg[pid], since + 2, Len(lg[pid])) ELSE <<>>
    ELSE <<>>
GetLogsOf(lg, pid, since) ==
    IF pid \in DOMAIN lg
    THEN IF since < Len(lg[pid]) THEN SubSeq(lg[pid], since + 1, Len(lg[pid])) ELSE <<>>
    ELSE <<>>

\* ------------------------------------------------------------------- tracing
\* on_event, lines 75-84: the first span of the event's scope, leaf to root,
\* whose extensions hold a DaemonInstanceId
RECURSIVE ScopeIdRootmost(_)
ScopeIdRootmost(s) ==
    IF s = 0 THEN None
    ELSE LET up == ScopeIdRootmost(spans[s].parent)
         IN  IF IsSome(up) THEN up ELSE spans[s].ext
RECURSIVE ScopeId(_)
ScopeId(s) ==
    IF s = 0 THEN None
    ELSE IF IsSome(spans[s].ext) THEN spans[s].ext
    ELSE ScopeId(spans[s].parent)

\* on_new_span, lines 118-135: the span's own field (record_u64; the cast to
\* u32 keeps every value a u32 field holds), else
\* a copy of the parent's extension
NewSpanExtNoInherit(field, parent) ==
    IF IsSome(field) THEN Some(field[1]) ELSE None
NewSpanExt(field, parent) ==
    IF IsSome(field) THEN Some(field[1])
    ELSE IF parent # 0 /\ IsSome(spans[parent].ext) THEN spans[parent].ext
    ELSE None

SpanRec(parent, field, owner) ==
    [parent |-> parent, field |-> field, ext |-> NewSpanExt(field, parent), owner |-> owner]


\* -------------------------------------------------------------------- inputs
\* DaemonConfig values the callers pass (binary_path is ignored by start)
OverridePort == BaseWsPort + 1   \* the default ws_port of id 1
CustomAddr == <<Txt("ip4"), Txt("127.0.0.1"), Txt("tcp"), Num(5000)>>
BadAddr == <<Txt("not-a-multiaddr")>>

Config(ws_port, listen_addr) ==
    [data_dir |-> None, socket_path |-> None, ws_port |-> ws_port,
     listen_addr |-> listen_addr, capabilities |-> None]
NoOverrides == Config(None, None)
Configs == {NoOverrides, Config(Some(OverridePort), None)}
AllocConfigs == {NoOverrides, Config(Some(OverridePort), None),
                 Config(None, Some(CustomAddr)), Config(None, Some(BadAddr))}
\* "/ip4/0.0.0.0/tcp/5000/ws": a listen address that ends in a protocol
WsAddr == <<Txt("ip4"), Txt("0.0.0.0"), Txt("tcp"), Num(5000), Txt("ws")>>
\* "": accepted by start, which parses the address only when it is not empty
\* (line 320)
EmptyAddr == <<>>
FsConfigs == {NoOverrides, Config(None, Some(BadAddr)), Config(None, Some(WsAddr)),
              Config(None, Some(EmptyAddr))}

Pids == 0 .. MaxCalls
Sinces == {0, 1, LogCap - 1, LogCap}

\* Idle callers are interchangeable (they hold no locals): the next call is
\* made by the lowest idle one.
Caller(t) == pc[t] = "idle" /\ \A u \in Threads : pc[u] = "idle" => t <= u

NoLoc == [op |-> "none"]
NoLast == [op |-> "none"]

\* ---------------------------------------------------------------------- Init
\* DaemonManager::new, lines 180-187, and the empty SharedLogs of run()
Init ==
    /\ next_index = 0
    /\ index_lock = 0
    /\ daemons = <<>>
    /\ daemons_lock = 0
    /\ logs_lock = 0
    /\ logs = <<>>
    /\ tasks = <<>>
    /\ spans = <<>>
    /\ pc = [t \in Threads |-> "idle"]
    /\ loc = [t \in Threads |-> NoLoc]
    /\ last = NoLast
    /\ ncalls = 0
    /\ nlog = 0
    /\ returned = <<>>
    /\ stopped = {}
    /\ fs = NoFiles

\* --------------------------------------------------------------------- start
\* `*index += 1` on success (line 497); an error return leaves the counter.
\* The counter is a u32: its range, 2^32, is beyond every bound used here.
IndexAfterSuccess(index) == index + 1
IndexAfterFailureConsumed(index) == index + 1
IndexAfterFailure(index) == index

\* the buffer of an id, if there is one
BufOf(lg, id) == IF id \in DOMAIN lg THEN Some(lg[id]) ELSE None

\* an error return of start: the next_index guard is dropped, nothing else
StartFail(t, err) ==
    /\ next_index' = IndexAfterFailure(next_index)
    /\ index_lock' = 0
    /\ pc' = [pc EXCEPT ![t] = "idle"]
    /\ loc' = [loc EXCEPT ![t] = NoLoc]
    /\ last' = [op |-> "start", ok |-> FALSE, err |-> err,
               id |-> loc[t].instance_id, ws_port |-> loc[t].ws_port]

\* lines 189-216: take the next_index mutex, resolve the endpoints
StartCall(t, cfg) ==
    /\ Caller(t)
    /\ index_lock = 0
    /\ ncalls' = ncalls + 1
    /\ \E build \in BuildOutcomes(next_index) :
          IF build = "panic"
          THEN \* the thread unwinds with the guard held: the mutex is poisoned
               /\ index_lock' = -1
               /\ last' = [op |-> "start", ok |-> FALSE, err |-> "panic",
                          id |-> next_index, ws_port |-> 0]
               /\ UNCHANGED <<pc, loc>>
          ELSE /\ index_lock' = t
               /\ pc' = [pc EXCEPT ![t] = "check"]
               /\ loc' = [loc EXCEPT ![t] =
                              [Resolve(cfg, next_index) EXCEPT
                                  !.buf0 = BufOf(logs, InstanceIdAt(next_index))]]
               /\ UNCHANGED last
    /\ UNCHANGED <<next_index, daemons, daemons_lock, logs, tasks, spans,
                   nlog, returned, stopped>>
    /\ UNCHANGED <<fs, logs_lock>>

\* A daemons guard that lives to the end of start.
GuardAfterBlockKept(t) == t
\* lines 219-225, 233-249, 487-495: each self.daemons.lock() of start is the
\* first statement of a block, and the guard is dropped at its closing brace
GuardAfterBlock(t) == 0

\* lines 218-225: prune the finished, refuse a tracked port
StartCheck(t) ==
    /\ pc[t] = "check"
    /\ daemons_lock = 0
    /\ daemons' = Retain(daemons)
    /\ IF PortConflict(Retain(daemons), loc[t].ws_port)
       THEN StartFail(t, "PortInUse:tracked")
       ELSE /\ pc' = [pc EXCEPT ![t] = "probe"]
            /\ UNCHANGED <<next_index, index_lock, loc, last>>
    /\ daemons_lock' = GuardAfterBlock(t)
    /\ UNCHANGED <<logs, tasks, spans, ncalls, nlog, returned, stopped>>
    /\ UNCHANGED <<fs, logs_lock>>

\* A probe that does not see the IPC servers of the instance tasks.
ProbeConnectsForeignOnly(ws_port, foreign) ==
    foreign \/ ws_port \in fs.listeners
\* line 228: TcpStream::connect(("127.0.0.1", ws_port)).is_ok(); a listener is
\* an instance task's IPC server, a process the host runs on a port
\* (fs.listeners), or another process the manager does not know (foreign)
ProbeConnects(ws_port, foreign) ==
    foreign \/ ws_port \in fs.listeners \/ ws_port \in TaskListeners

\* lines 227-230: the live probe of the resolved ws_port
StartProbe(t) ==
    /\ pc[t] = "probe"
    /\ \E foreign \in BOOLEAN :
          IF ProbeConnects(loc[t].ws_port, foreign)
          THEN StartFail(t, "PortInUse:probe")
          ELSE /\ pc' = [pc EXCEPT ![t] = "peers"]
               /\ UNCHANGED <<next_index, index_lock, loc, last>>
    /\ UNCHANGED <<daemons, daemons_lock, logs, tasks, spans, ncalls,
                   nlog, returned, stopped>>
    /\ UNCHANGED <<fs, logs_lock>>

\* lines 232-249: boot peers from the live tracked instances
StartBootPeers(t) ==
    /\ pc[t] = "peers"
    /\ daemons_lock = 0
    /\ loc' = [loc EXCEPT ![t].boot_peers = BootPeers(daemons)]
    /\ pc' = [pc EXCEPT ![t] = "prepare"]
    /\ daemons_lock' = GuardAfterBlock(t)
    /\ UNCHANGED <<next_index, index_lock, daemons, logs, tasks,
                   spans, last, ncalls, nlog, returned, stopped>>
    /\ UNCHANGED <<fs, logs_lock>>

\* lines 251-344: config file (best effort), data dir, node key, ed25519
\* secret, listen address; the first failing step returns its error
StartPrepare(t) ==
    /\ pc[t] = "prepare"
    /\ LET outcome == ConfigWrite(DirOf(fs.files, loc[t].data_dir).config,
                               loc[t], fs.config_ro)
       IN  \E failure \in PrepareFailures(fs.files, loc[t].data_dir) :
             /\ fs' = [fs EXCEPT !.files =
                          FilesAfter(fs.files, loc[t], fs.config_ro, failure)]
             /\ IF ConfigWriteError(outcome) # "none"
                THEN StartFail(t, ConfigWriteError(outcome))
                ELSE IF failure # "none"
                THEN StartFail(t, failure)
                ELSE IF loc[t].listen_addr # <<>> /\ ~ValidMultiaddr(loc[t].listen_addr)
                THEN StartFail(t, "InvalidAddress")
                ELSE /\ pc' = [pc EXCEPT ![t] = "logbuf"]
                     /\ loc' = [loc EXCEPT ![t].config_write =
                                    IF failure = "IoError" THEN "failed" ELSE outcome]
                     /\ UNCHANGED <<next_index, index_lock, last>>
    /\ UNCHANGED <<daemons, daemons_lock, logs, tasks, spans, ncalls,
                   nlog, returned, stopped>>
    /\ UNCHANGED logs_lock

\* lines 346-350: logs.insert(instance_id, Vec::new())
StartLogBuf(t) ==
    /\ pc[t] = "logbuf"
    /\ logs_lock = 0
    /\ logs' = (loc[t].instance_id :> <<>>) @@ logs
    /\ pc' = [pc EXCEPT ![t] = "spawn"]
    /\ UNCHANGED <<next_index, index_lock, daemons, daemons_lock, tasks, spans,
                   loc, last, ncalls, nlog, returned, stopped>>
    /\ UNCHANGED <<fs, logs_lock>>

\* lines 378-443: self.runtime.spawn(async move { .. }.instrument(span))
SpawnTask(ts, l) ==
    (l.instance_id :> [st |-> "init", aborted |-> FALSE, ws_port |-> l.ws_port]) @@ ts

\* lines 367-371: the ? of CraftNetService::new_with_data_dir returns before
\* runtime.spawn (line 378) is reached
TasksAtCraftNetErrorSpawned(ts, l) == SpawnTask(ts, l)
TasksAtCraftNetError(ts, l) == ts

\* lines 365-443: the CraftNet service (may fail), the "daemon" span with
\* daemon_instance_id, the spawned task
StartSpawn(t) ==
    /\ pc[t] = "spawn"
    /\ \E craftnet_ok \in BOOLEAN :
          IF ~craftnet_ok
          THEN /\ StartFail(t, "CraftNet")
               /\ tasks' = TasksAtCraftNetError(tasks, loc[t])
               /\ UNCHANGED spans
          ELSE /\ tasks' = SpawnTask(tasks, loc[t])
               /\ spans' = Append(spans,
                               SpanRec(0, Some(loc[t].instance_id), loc[t].instance_id))
               /\ pc' = [pc EXCEPT ![t] = "register"]
               /\ UNCHANGED <<next_index, index_lock, loc, last>>
    /\ UNCHANGED <<daemons, daemons_lock, logs, ncalls, nlog, returned,
                   stopped>>
    /\ UNCHANGED <<fs, logs_lock>>

\* lines 477-495: daemons.push(ManagedDaemon { info, .. })
StartRegister(t) ==
    /\ pc[t] = "register"
    /\ daemons_lock = 0
    /\ daemons' = Append(daemons, [info |-> InstanceOf(loc[t])])
    /\ pc' = [pc EXCEPT ![t] = "return"]
    /\ daemons_lock' = GuardAfterBlock(t)
    /\ UNCHANGED <<next_index, index_lock, logs, tasks, spans,
                   loc, last, ncalls, nlog, returned, stopped>>
    /\ UNCHANGED <<fs, logs_lock>>

\* lines 497-498: *index += 1; Ok(instance); the guard is dropped
StartReturn(t) ==
    /\ pc[t] = "return"
    /\ next_index' = IndexAfterSuccess(next_index)
    /\ index_lock' = 0
    /\ last' = [op |-> "start", ok |-> TRUE, inst |-> InstanceOf(loc[t]),
               cfg |-> loc[t].cfg, config_write |-> loc[t].config_write,
               boot_peers |-> loc[t].boot_peers]
    /\ returned' = Append(returned, loc[t].instance_id)
    /\ pc' = [pc EXCEPT ![t] = "idle"]
    /\ loc' = [loc EXCEPT ![t] = NoLoc]
    /\ UNCHANGED <<daemons, daemons_lock, logs, tasks, spans, ncalls, nlog,
                   stopped>>
    /\ UNCHANGED <<fs, logs_lock>>


\* ---------------------------------------------------------------------- stop
\* what stop does to the log buffers when position() finds nothing: nothing
\* (the `?` returns before logs is touched)
LogsAfterNotFoundRemoved(lg, pid) == LogRemove(lg, pid)
LogsAfterNotFound(lg, pid) == lg

\* lines 502-509: lock daemons, position, remove, abort; NotFound returns
StopRemove(t, pid) ==
    /\ Caller(t)
    /\ daemons_lock = 0
    /\ IF Position(daemons, pid) = 0
       THEN /\ last' = [op |-> "stop", pid |-> pid, ok |-> FALSE,
                       err |-> "NotFound"]
            /\ logs' = LogsAfterNotFound(logs, pid)
            /\ UNCHANGED <<daemons, daemons_lock, tasks, pc, loc>>
       ELSE /\ daemons' = RemoveAt(daemons, Position(daemons, pid))
            /\ tasks' = Abort(tasks, daemons[Position(daemons, pid)].info.pid)
            /\ daemons_lock' = t
            /\ pc' = [pc EXCEPT ![t] = "stop_logs"]
            /\ loc' = [loc EXCEPT ![t] = [op |-> "stop", pid |-> pid]]
            /\ UNCHANGED <<logs, last>>
    /\ UNCHANGED <<next_index, index_lock, spans, ncalls, nlog, returned,
                   stopped>>
    /\ UNCHANGED <<fs, logs_lock>>

\* lines 511-515: with daemons still held, lock logs, remove the buffer, Ok
StopLogs(t) ==
    /\ pc[t] = "stop_logs"
    /\ logs_lock = 0
    /\ logs' = LogRemove(logs, loc[t].pid)
    /\ daemons_lock' = 0
    /\ last' = [op |-> "stop", pid |-> loc[t].pid, ok |-> TRUE]
    /\ stopped' = stopped \cup {loc[t].pid}
    /\ pc' = [pc EXCEPT ![t] = "idle"]
    /\ loc' = [loc EXCEPT ![t] = NoLoc]
    /\ UNCHANGED <<next_index, index_lock, daemons, tasks, spans, ncalls,
                   nlog, returned>>
    /\ UNCHANGED <<fs, logs_lock>>

\* ---------------------------------------------------------------------- list
\* lines 518-522
List(t) ==
    /\ Caller(t)
    /\ daemons_lock = 0
    /\ daemons' = Retain(daemons)
    /\ last' = [op |-> "list",
               insts |-> [i \in 1 .. Len(Retain(daemons)) |-> Retain(daemons)[i].info]]
    /\ UNCHANGED <<next_index, index_lock, daemons_lock, logs, tasks, spans, pc,
                   loc, ncalls, nlog, returned, stopped>>
    /\ UNCHANGED <<fs, logs_lock>>

\* ------------------------------------------------------------------ get_logs
\* lines 524-535
GetLogs(t, pid, since) ==
    /\ Caller(t)
    /\ logs_lock = 0
    /\ last' = [op |-> "get_logs", pid |-> pid, since |-> since,
               lines |-> GetLogsOf(logs, pid, since)]
    /\ UNCHANGED <<next_index, index_lock, daemons, daemons_lock, logs, tasks,
                   spans, pc, loc, ncalls, nlog, returned, stopped>>
    /\ UNCHANGED <<fs, logs_lock>>

\* ------------------------------------------------------------------ stop_all
RECURSIVE AbortAll(_, _)
AbortAll(ts, ds) ==
    IF ds = <<>> THEN ts ELSE AbortAll(Abort(ts, Head(ds).info.pid), Tail(ds))

\* line 543: logs.clear(), whatever the registry held
LogsAfterStopAllRegistered(lg, pids) == [k \in DOMAIN lg \ pids |-> lg[k]]
LogsAfterStopAll(lg, pids) == <<>>

\* lines 538-542: lock daemons, abort every task, clear.  Drop::drop (lines
\* 547-551) is this call, made by the one owner left.
StopAllClear(t) ==
    /\ Caller(t)
    /\ daemons_lock = 0
    /\ tasks' = AbortAll(tasks, daemons)
    /\ daemons' = <<>>
    /\ daemons_lock' = t
    /\ pc' = [pc EXCEPT ![t] = "stop_all_logs"]
    /\ loc' = [loc EXCEPT ![t] =
                   [op |-> "stop_all",
                    pids |-> {daemons[i].info.pid : i \in 1 .. Len(daemons)},
                    alone |-> \A u \in Threads \ {t} : pc[u] = "idle"]]
    /\ UNCHANGED <<next_index, index_lock, logs, spans, last, ncalls, nlog,
                   returned, stopped>>
    /\ UNCHANGED <<fs, logs_lock>>

\* line 543: with daemons still held, self.logs.lock().unwrap().clear()
StopAllLogs(t) ==
    /\ pc[t] = "stop_all_logs"
    /\ logs_lock = 0
    /\ logs' = LogsAfterStopAll(logs, loc[t].pids)
    /\ daemons_lock' = 0
    /\ last' = [op |-> "stop_all"]
    /\ pc' = [pc EXCEPT ![t] = "idle"]
    /\ loc' = [loc EXCEPT ![t] = NoLoc]
    /\ UNCHANGED <<next_index, index_lock, daemons, tasks, spans, ncalls,
                   nlog, returned, stopped>>
    /\ UNCHANGED <<fs, logs_lock>>

\* ----------------------------------------------------------- the log layer
\* the formatted text of a line: what it says, the arrival number of a
\* tracing event (0 for the two fixed lines of a failing init), and the span
\* the event was emitted in
EventLine(text, n, s) == [text |-> text, n |-> n, span |-> s]

\* a span's code runs only while the instance task that owns it is in
\* init_daemon or in its loops (between error! and the return of lines
\* 393-402 the task logs nothing else); owner -1: a span made outside every
\* instance task
SpanLive(s) ==
    IF s = 0 THEN TRUE
    ELSE IF spans[s].owner = -1 THEN TRUE
    ELSE /\ spans[s].owner \in DOMAIN tasks
         /\ tasks[spans[s].owner].st \in {"init", "running"}

\* on_event, lines 73-109, of an event whose scope starts at span s (0: none)
Emit(s, text, n) ==
    LET id == ScopeId(s)
    IN  IF IsSome(id)
        THEN /\ logs' = LogAppend(logs, id[1],
                            LogLine(id[1], EventLine(text, n, s), FALSE))
             /\ last' = [op |-> "event", span |-> s, id |-> id,
                         delivered |-> id[1] \in DOMAIN logs]
        ELSE /\ logs' = logs
             /\ last' = [op |-> "event", span |-> s, id |-> None,
                         delivered |-> FALSE]

\* a tracing event of the code running in span s
OnEvent(s) ==
    /\ SpanLive(s)
    /\ logs_lock = 0
    /\ nlog' = nlog + 1
    /\ Emit(s, "event", nlog + 1)
    /\ UNCHANGED <<next_index, index_lock, daemons, daemons_lock, tasks, spans,
                   pc, loc, ncalls, returned, stopped>>
    /\ UNCHANGED <<fs, logs_lock>>

\* a span made by the code running in span `parent` (0: in no span), with or
\* without a daemon_instance_id field
NewSpan(parent, field) ==
    /\ SpanLive(parent)
    /\ spans' = Append(spans,
                    SpanRec(parent, field,
                            IF parent = 0 THEN -1 ELSE spans[parent].owner))
    /\ UNCHANGED <<next_index, index_lock, daemons, daemons_lock, logs, tasks,
                   pc, loc, last, ncalls, nlog, returned, stopped>>
    /\ UNCHANGED <<fs, logs_lock>>

\* --------------------------------------------------------- the instance task
\* the root span start made for instance k (line 377)
RootSpan(k) == CHOOSE s \in 1 .. Len(spans) : spans[s].parent = 0 /\ spans[s].owner = k

\* lines 381-390: init_daemon succeeds; the IPC server binds the ws port
TaskInitOk(k) ==
    /\ k \in DOMAIN tasks
    /\ tasks[k].st = "init"
    /\ tasks' = [tasks EXCEPT ![k].st = "running"]
    /\ UNCHANGED <<next_index, index_lock, daemons, daemons_lock, logs, spans,
                   pc, loc, last, ncalls, nlog, returned, stopped>>
    /\ UNCHANGED <<fs, logs_lock>>

\* lines 392-393: init_daemon fails; error!("Failed to init daemon") in the span
TaskInitErr(k) ==
    /\ k \in DOMAIN tasks
    /\ tasks[k].st = "init"
    /\ logs_lock = 0
    /\ tasks' = [tasks EXCEPT ![k].st = "failing"]
    /\ Emit(RootSpan(k), "Failed to init daemon", 0)
    /\ UNCHANGED <<next_index, index_lock, daemons, daemons_lock, spans, pc,
                   loc, ncalls, nlog, returned, stopped>>
    /\ UNCHANGED <<fs, logs_lock>>

\* lines 394-402: the "Daemon init failed" line, pushed directly; return
TaskInitFailed(k) ==
    /\ k \in DOMAIN tasks
    /\ tasks[k].st = "failing"
    /\ logs_lock = 0
    /\ logs' = LogPush(logs, k, LogLine(k, EventLine("Daemon init failed", 0, 0), TRUE))
    /\ tasks' = [tasks EXCEPT ![k].st = "done"]
    /\ UNCHANGED <<next_index, index_lock, daemons, daemons_lock, spans, pc,
                   loc, last, ncalls, nlog, returned, stopped>>
    /\ UNCHANGED <<fs, logs_lock>>

\* lines 431-442: the daemon loops end or the IPC server returns
TaskExit(k) ==
    /\ k \in DOMAIN tasks
    /\ tasks[k].st = "running"
    /\ tasks' = [tasks EXCEPT ![k].st = "done"]
    /\ UNCHANGED <<next_index, index_lock, daemons, daemons_lock, logs, spans,
                   pc, loc, last, ncalls, nlog, returned, stopped>>
    /\ UNCHANGED <<fs, logs_lock>>

\* lines 435-439: ipc.run() returns Err; error!("IPC server error for
\* instance ..") in the span, which reaches the buffer through on_event
TaskIpcError(k) ==
    /\ k \in DOMAIN tasks
    /\ tasks[k].st = "running"
    /\ logs_lock = 0
    /\ tasks' = [tasks EXCEPT ![k].st = "ipc_error"]
    /\ Emit(RootSpan(k), "IPC server error", 0)
    /\ UNCHANGED <<next_index, index_lock, daemons, daemons_lock, spans, pc,
                   loc, ncalls, nlog, returned, stopped>>
    /\ UNCHANGED <<fs, logs_lock>>

\* line 442 after an IPC server error: info!("Daemon instance {} exited
\* cleanly") in the span; the task ends
TaskIpcExit(k) ==
    /\ k \in DOMAIN tasks
    /\ tasks[k].st = "ipc_error"
    /\ logs_lock = 0
    /\ tasks' = [tasks EXCEPT ![k].st = "done"]
    /\ Emit(RootSpan(k), "exited cleanly", 0)
    /\ UNCHANGED <<next_index, index_lock, daemons, daemons_lock, spans, pc,
                   loc, ncalls, nlog, returned, stopped>>
    /\ UNCHANGED <<fs, logs_lock>>

\* an aborted task is cancelled at its next await (init_daemon, select!)
TaskCancel(k) ==
    /\ k \in DOMAIN tasks
    /\ tasks[k].aborted
    /\ tasks[k].st \in {"init", "running"}
    /\ tasks' = [tasks EXCEPT ![k].st = "done"]
    /\ UNCHANGED <<next_index, index_lock, daemons, daemons_lock, logs, spans,
                   pc, loc, last, ncalls, nlog, returned, stopped>>
    /\ UNCHANGED <<fs, logs_lock>>

\* ------------------------------------------------------------ the start path
StartStep(t) ==
    \/ StartCheck(t)
    \/ StartProbe(t)
    \/ StartBootPeers(t)
    \/ StartPrepare(t)
    \/ StartLogBuf(t)
    \/ StartSpawn(t)
    \/ StartRegister(t)
    \/ StartReturn(t)

\* ---------------------------------------------------------------------- Spec
\* The lifecycle: concurrent start, stop, list and stop_all calls and the
\* instance tasks, from a new DaemonManager.
Next ==
    \/ \E t \in Threads, cfg \in Configs : ncalls < MaxCalls /\ StartCall(t, cfg)
    \/ \E t \in Threads : StartStep(t)
    \/ \E t \in Threads, pid \in Pids : StopRemove(t, pid)
    \/ \E t \in Threads : StopLogs(t)
    \/ \E t \in Threads : List(t)
    \/ \E t \in Threads : StopAllClear(t)
    \/ \E t \in Threads : StopAllLogs(t)
    \/ \E k \in Pids : TaskInitOk(k)
    \/ \E k \in Pids : TaskInitErr(k)
    \/ \E k \in Pids : TaskInitFailed(k)
    \/ \E k \in Pids : TaskExit(k)
    \/ \E k \in Pids : TaskCancel(k)

Spec == Init /\ [][Next]_vars


\* ----------------------------------------------------------------- SpecAlloc
\* Endpoint allocation along the life of one manager.  Every successful start
\* advances the counter by one and nothing ever lowers it, so a manager that
\* has served n successful starts (and as many stops) holds next_index = n
\* with an empty registry: the counter value just below the u16 limit of the
\* listen port (line 195) is such a state in every build.  `returned` restarts as the history of
\* the calls made from there.
AllocStarts == {0, U16Modulus - BaseListenPort - 1}

InitAlloc ==
    /\ next_index \in AllocStarts
    /\ index_lock = 0
    /\ daemons = <<>>
    /\ daemons_lock = 0
    /\ logs_lock = 0
    /\ logs = <<>>
    /\ tasks = <<>>
    /\ spans = <<>>
    /\ pc = [t \in Threads |-> "idle"]
    /\ loc = [t \in Threads |-> NoLoc]
    /\ last = NoLast
    /\ ncalls = 0
    /\ nlog = 0
    /\ returned = <<>>
    /\ stopped = {}
    /\ fs = NoFiles

NextAlloc ==
    \/ \E t \in Threads, cfg \in AllocConfigs : ncalls < MaxAlloc /\ StartCall(t, cfg)
    \/ \E t \in Threads : StartStep(t)

SpecAlloc == InitAlloc /\ [][NextAlloc]_vars

\* ------------------------------------------------- the state after n starts
\* What n successful start calls without overrides, one after the other,
\* leave behind on a new manager (lines 189-498), every task still in
\* init_daemon.
LocalsOfStart(i) ==
    [Resolve(NoOverrides, i) EXCEPT
        !.boot_peers = [j \in 1 .. i |->
                           BootPeerOf([info |-> InstanceOf(Resolve(NoOverrides, j - 1))])],
        !.config_write = "written"]
RECURSIVE FilesAfterStarts(_)
FilesAfterStarts(n) ==
    IF n = 0 THEN <<>>
    ELSE (LocalsOfStart(n - 1).data_dir :>
             [config |-> Some(DefaultConfig(LocalsOfStart(n - 1))), key |-> TRUE])
         @@ FilesAfterStarts(n - 1)
StateAfterStarts(n) ==
    /\ next_index = n
    /\ index_lock = 0
    /\ daemons = [i \in 1 .. n |-> [info |-> InstanceOf(Resolve(NoOverrides, i - 1))]]
    /\ daemons_lock = 0
    /\ logs_lock = 0
    /\ logs = [k \in 0 .. n - 1 |-> <<>>]
    /\ tasks = [k \in 0 .. n - 1 |->
                   [st |-> "init", aborted |-> FALSE, ws_port |-> WsPortDefault(k)]]
    /\ spans = [i \in 1 .. n |-> SpanRec(0, Some(i - 1), i - 1)]
    /\ pc = [t \in Threads |-> "idle"]
    /\ loc = [t \in Threads |-> NoLoc]
    /\ last = [op |-> "start", ok |-> TRUE,
               inst |-> InstanceOf(Resolve(NoOverrides, n - 1)),
               cfg |-> NoOverrides, config_write |-> "written",
               boot_peers |-> LocalsOfStart(n - 1).boot_peers]
    /\ ncalls = n
    /\ nlog = 0
    /\ returned = [i \in 1 .. n |-> i - 1]
    /\ stopped = {}
    /\ fs = [NoFiles EXCEPT !.files = FilesAfterStarts(n)]

\* ------------------------------------------------------------------- SpecLog
\* One instance and its log buffer: the events of its task, the two lines of
\* a failing init, get_logs.
InitLog == StateAfterStarts(1)

NextLog ==
    \/ \E s \in 1 .. Len(spans) : nlog < MaxBurst /\ OnEvent(s)
    \/ \E k \in Pids : TaskInitOk(k)
    \/ \E k \in Pids : TaskInitErr(k)
    \/ \E k \in Pids : TaskInitFailed(k)
    \/ \E k \in Pids : TaskExit(k)
    \/ \E t \in Threads, pid \in Pids, since \in Sinces : GetLogs(t, pid, since)

SpecLog == InitLog /\ [][NextLog]_vars

\* ------------------------------------------------------------------ SpecSpan
\* Two instances, the spans their code and other code opens, events in any
\* of them, and stops.
\* the ids of the two instances and an id no instance has
SpanPids == {0, 1, 2}
Fields == {None} \cup {Some(id) : id \in SpanPids}

InitSpan == StateAfterStarts(2)

NextSpan ==
    \/ \E parent \in 0 .. Len(spans), field \in Fields :
          Len(spans) < MaxSpans /\ NewSpan(parent, field)
    \/ \E s \in 0 .. Len(spans) : nlog < MaxEvents /\ OnEvent(s)
    \/ \E t \in Threads, pid \in SpanPids : StopRemove(t, pid)
    \/ \E t \in Threads : StopLogs(t)
    \/ \E k \in SpanPids : TaskCancel(k)

SpecSpan == InitSpan /\ [][NextSpan]_vars


\* -------------------------------------------------------------------- SpecFs
\* Starts and what they leave on disk: the data directories are new, or
\* left by an earlier run of the application; the config files can become
\* unwritable just before a start reaches its config step, and stay so.
EnvConfigLock ==
    /\ ~fs.config_ro
    /\ \E t \in Threads : pc[t] = "prepare"
    /\ fs' = [fs EXCEPT !.config_ro = TRUE]
    /\ UNCHANGED <<next_index, index_lock, daemons, daemons_lock, logs, tasks,
                   spans, pc, loc, last, ncalls, nlog, returned, stopped>>
    /\ UNCHANGED logs_lock

InitFs ==
    /\ next_index = 0
    /\ index_lock = 0
    /\ daemons = <<>>
    /\ daemons_lock = 0
    /\ logs_lock = 0
    /\ logs = <<>>
    /\ tasks = <<>>
    /\ spans = <<>>
    /\ pc = [t \in Threads |-> "idle"]
    /\ loc = [t \in Threads |-> NoLoc]
    /\ last = NoLast
    /\ ncalls = 0
    /\ nlog = 0
    /\ returned = <<>>
    /\ stopped = {}
    /\ fs \in {NoFiles, [NoFiles EXCEPT !.files = FilesAfterStarts(2)]}

NextFs ==
    \/ \E t \in Threads, cfg \in FsConfigs : ncalls < MaxFsCalls /\ StartCall(t, cfg)
    \/ \E t \in Threads : StartStep(t)
    \/ \E t \in Threads, pid \in Pids : StopRemove(t, pid)
    \/ \E t \in Threads : StopLogs(t)
    \/ \E k \in Pids : TaskInitOk(k)
    \/ \E k \in Pids : TaskExit(k)
    \/ EnvConfigLock

SpecFs == InitFs /\ [][NextFs]_vars

\* ----------------------------------------------------------------- SpecStart
\* Starts against callers that contend for the daemons lock, with
\* scheduling: a caller inside start keeps running, and gets the daemons
\* lock when it is free again and again; a stop or stop_all that holds the
\* lock finishes.
StartConfigs == {NoOverrides, Config(None, Some(BadAddr))}

NextStart ==
    \/ \E t \in Threads, cfg \in StartConfigs : ncalls < MaxFsCalls /\ StartCall(t, cfg)
    \/ \E t \in Threads : StartStep(t)
    \/ \E t \in Threads, pid \in Pids : StopRemove(t, pid)
    \/ \E t \in Threads : StopLogs(t)
    \/ \E t \in Threads : StopAllClear(t)
    \/ \E t \in Threads : StopAllLogs(t)

SpecStart ==
    /\ Init
    /\ [][NextStart]_vars
    /\ \A t \in Threads : SF_vars(StartStep(t))
    /\ \A t \in Threads : WF_vars(StopLogs(t))
    /\ \A t \in Threads : WF_vars(StopAllLogs(t))

\* ------------------------------------------------------------------ SpecTask
\* Instance tasks that fail after start has spawned them, with the calls
\* that observe them: start, stop, list.
MaxTaskCalls == 2

NextTask ==
    \/ \E t \in Threads : ncalls < MaxTaskCalls /\ StartCall(t, NoOverrides)
    \/ \E t \in Threads : StartStep(t)
    \/ \E t \in Threads, pid \in Pids : StopRemove(t, pid)
    \/ \E t \in Threads : StopLogs(t)
    \/ \E t \in Threads : List(t)
    \/ \E k \in Pids : TaskInitOk(k)
    \/ \E k \in Pids : TaskInitErr(k)
    \/ \E k \in Pids : TaskInitFailed(k)
    \/ \E k \in Pids : TaskIpcError(k)
    \/ \E k \in Pids : TaskIpcExit(k)
    \/ \E k \in Pids : TaskExit(k)
    \/ \E k \in Pids : TaskCancel(k)

SpecTask == Init /\ [][NextTask]_vars

\* ----------------------------------------------------------------- SpecProbe
\* Starts against listeners on 127.0.0.1: processes of the host that open
\* and close a port, and the IPC servers of instances, stopped or not.
MaxProbeCalls == 2
HostPorts == {BaseWsPort, OverridePort}

EnvListen(p) ==
    /\ p \notin fs.listeners
    /\ p \notin TaskListeners
    /\ \E t \in Threads : pc[t] \in {"check", "probe"}
    /\ fs' = [fs EXCEPT !.listeners = @ \cup {p}]
    /\ UNCHANGED <<next_index, index_lock, daemons, daemons_lock, logs, tasks,
                   spans, pc, loc, last, ncalls, nlog, returned, stopped>>
    /\ UNCHANGED logs_lock

EnvClose(p) ==
    /\ p \in fs.listeners
    /\ fs' = [fs EXCEPT !.listeners = @ \ {p}]
    /\ UNCHANGED <<next_index, index_lock, daemons, daemons_lock, logs, tasks,
                   spans, pc, loc, last, ncalls, nlog, returned, stopped>>
    /\ UNCHANGED logs_lock

NextProbe ==
    \/ \E t \in Threads, cfg \in Configs : ncalls < MaxProbeCalls /\ StartCall(t, cfg)
    \/ \E t \in Threads : StartStep(t)
    \/ \E t \in Threads, pid \in Pids : StopRemove(t, pid)
    \/ \E t \in Threads : StopLogs(t)
    \/ \E k \in Pids : TaskInitOk(k)
    \/ \E k \in Pids : TaskCancel(k)
    \/ \E p \in HostPorts : EnvListen(p)
    \/ \E p \in HostPorts : EnvClose(p)

SpecProbe == Init /\ [][NextProbe]_vars

\* ----------------------------------------------------------------- SpecLocks
\* The calls and the log layer at the grain of their lock acquisitions: an
\* event of an instance task takes the logs mutex in one step and pushes
\* and releases in the next, so that a caller can find the mutex held.
MaxLockCalls == 1
MaxLockEvents == 1

\* A log layer that looks the instance up in the registry before it pushes.
OnEventPushesUnderRegistry == daemons_lock = 0
\* on_event, lines 98-108: between taking the logs mutex and releasing it
\* the log layer takes no other lock
OnEventPushes == TRUE

\* on_event, lines 73-98, of an event in the root span of instance task k:
\* the id is found and self.logs.lock() returns
EventLock(k) ==
    /\ k \in DOMAIN tasks
    /\ tasks[k].st \in {"init", "running"}
    /\ nlog < MaxLockEvents
    /\ logs_lock = 0
    /\ logs_lock' = -(k + 1)
    /\ UNCHANGED <<next_index, index_lock, daemons, daemons_lock, logs, tasks,
                   spans, pc, loc, last, ncalls, nlog, returned, stopped, fs>>

\* on_event, lines 99-108: push, trim, drop the guard
EventPush(k) ==
    /\ logs_lock = -(k + 1)
    /\ OnEventPushes
    /\ nlog' = nlog + 1
    /\ Emit(RootSpan(k), "event", nlog + 1)
    /\ logs_lock' = 0
    /\ UNCHANGED <<next_index, index_lock, daemons, daemons_lock, tasks, spans,
                   pc, loc, ncalls, returned, stopped, fs>>

NextLocks ==
    \/ \E t \in Threads : ncalls < MaxLockCalls /\ StartCall(t, NoOverrides)
    \/ \E t \in Threads : StartStep(t)
    \/ \E t \in Threads, pid \in Pids : StopRemove(t, pid)
    \/ \E t \in Threads : StopLogs(t)
    \/ \E t \in Threads : List(t)
    \/ \E t \in Threads : GetLogs(t, 0, 0)
    \/ \E t \in Threads : StopAllClear(t)
    \/ \E t \in Threads : StopAllLogs(t)
    \/ \E k \in Pids : EventLock(k)
    \/ \E k \in Pids : EventPush(k)

SpecLocks ==
    /\ Init
    /\ [][NextLocks]_vars
    /\ \A t \in Threads : SF_vars(StartStep(t))
    /\ \A t \in Threads : WF_vars(StopLogs(t))
    /\ \A t \in Threads : WF_vars(StopAllLogs(t))
    /\ \A k \in Pids : WF_vars(EventPush(k))

\* ------------------------------------------------------------------ SpecPort
\* Starts with and without a ws_port override, stops, and the instance
\* tasks from their IPC server's bind to their cancellation.
MaxPortCalls == 3

NextPort ==
    \/ \E t \in Threads, cfg \in Configs : ncalls < MaxPortCalls /\ StartCall(t, cfg)
    \/ \E t \in Threads : StartStep(t)
    \/ \E t \in Threads, pid \in Pids : StopRemove(t, pid)
    \/ \E t \in Threads : StopLogs(t)
    \/ \E k \in Pids : TaskInitOk(k)
    \/ \E k \in Pids : TaskCancel(k)

SpecPort == Init /\ [][NextPort]_vars


\* ============================================================ the claims
RegisteredPids == {daemons[i].info.pid : i \in 1 .. Len(daemons)}
Quiescent == \A t \in Threads : pc[t] = "idle"
InStart(t) == pc[t] \in {"check", "probe", "peers", "prepare", "logbuf",
                         "spawn", "register", "return"}

\* C1: every successful start returns an id different from the id returned
\* by every earlier successful start, whatever was stopped, pruned or
\* cleared in between.
C1_IdsNeverReused ==
    \A i \in 1 .. Len(returned) : \A j \in 1 .. Len(returned) :
        i # j => returned[i] # returned[j]

\* C1 witness: two starts have succeeded, the first instance was stopped and
\* is gone from the registry before the second id was returned.
C1_Witness ==
    /\ Len(returned) = 2
    /\ returned[1] \in stopped
    /\ returned[1] \notin RegisteredPids
    /\ last.op = "start" /\ last.ok

\* C2: the registry never holds two instances on one ws_port, and a start
\* that is past its conflict check (so did not return PortInUse there) has
\* no registered instance on its port: a start that meets a registered,
\* unfinished instance on its port returns PortInUse.
C2_OnePerPort ==
    /\ \A i \in 1 .. Len(daemons) : \A j \in 1 .. Len(daemons) :
          i # j => daemons[i].info.ws_port # daemons[j].info.ws_port
    /\ \A t \in Threads :
          pc[t] \in {"probe", "peers", "prepare", "logbuf", "spawn"}
              => \A i \in 1 .. Len(daemons) : daemons[i].info.ws_port # loc[t].ws_port

\* C2 witness: a start has just returned PortInUse for a tracked port and
\* the registry holds exactly one instance on that port.
C2_Witness ==
    /\ last.op = "start" /\ ~last.ok /\ last.err = "PortInUse:tracked"
    /\ Cardinality({i \in 1 .. Len(daemons) : daemons[i].info.ws_port = last.ws_port}) = 1

\* C3: the ids of the successful starts, in order of completion, are
\* 0, 1, 2, ...: no duplicate, no gap, and a failed start consumes no id (the
\* counter is the number of successful starts).
C3_IdsDense ==
    /\ \A k \in 1 .. Len(returned) : returned[k] = k - 1
    /\ next_index = Len(returned)

\* C3 witness: a start failed, a later start succeeded and got id 0.
C3_Witness ==
    /\ ncalls = 2
    /\ returned = <<0>>
    /\ Quiescent
    /\ last.op = "start" /\ last.ok /\ last.inst.pid = 0

\* C4: a successful start without any override gives the instance with id
\* i the ws_port 9091 + i, the listen address /ip4/0.0.0.0/tcp/(44001 + i),
\* the data dir <home>/.craftobj for i = 0 and /tmp/craftobj-node-i
\* otherwise, the socket /tmp/craftobj.sock for i = 0 and /tmp/craftobj-i.sock
\* otherwise.
C4_DefaultEndpoints ==
    (last.op = "start" /\ last.ok /\ last.cfg = NoOverrides)
        => LET i == last.inst.pid IN
           /\ last.inst.ws_port = BaseWsPort + i
           /\ last.inst.listen_addr = ListenAddrFmt(BaseListenPort + i)
           /\ last.inst.data_dir = IF i = 0 THEN PrimaryDataDir ELSE NodeDataDir(i)
           /\ last.inst.socket_path = IF i = 0 THEN PrimarySocket ELSE NodeSocket(i)

\* C5: with no manager call in progress the log-buffer map has exactly the
\* ids of the registered instances as its keys.
C5_BuffersMatchRegistry == Quiescent => DOMAIN logs = RegisteredPids

\* C6: once stop(id) has returned Ok, get_logs(id, 0) is empty in every later
\* state and the buffer of that id is never there again: neither an event of
\* the aborted task nor a later start brings it back.
C6_StoppedStaysEmpty ==
    \A id \in stopped : id \notin DOMAIN logs /\ GetLogsOf(logs, id, 0) = <<>>

\* C6 witness: the aborted task of a stopped instance has emitted an event
\* after the stop, and the log layer dropped it.
C6_Witness ==
    /\ last.op = "event"
    /\ IsSome(last.id)
    /\ last.id[1] \in stopped
    /\ ~last.delivered

\* The cases of stop: a stop that returns NotFound was for an id not in the
\* registry and changes neither the registry, the log buffers, the counter nor any task;
\* a stop that finds its id removes exactly that instance, aborts exactly its
\* task, and then removes exactly its log buffer.
C7_StopNotFound ==
    (last'.op = "stop" /\ last' # last /\ ~last'.ok)
        => /\ last'.err = "NotFound"
           /\ last'.pid \notin RegisteredPids
           /\ UNCHANGED <<daemons, logs, next_index, tasks>>
C7_StopFound(t) ==
    (pc[t] = "idle" /\ pc'[t] = "stop_logs")
        => LET pid == loc'[t].pid IN
           /\ pid \in RegisteredPids
           /\ Len(daemons') = Len(daemons) - 1
           /\ \A i \in 1 .. Len(daemons) :
                 daemons[i].info.pid # pid
                     => \E j \in 1 .. Len(daemons') : daemons'[j] = daemons[i]
           /\ pid \notin {daemons'[j].info.pid : j \in 1 .. Len(daemons')}
           /\ DOMAIN tasks' = DOMAIN tasks
           /\ \A k \in DOMAIN tasks :
                 tasks'[k] = IF k = pid THEN [tasks[k] EXCEPT !.aborted = TRUE]
                                        ELSE tasks[k]
           /\ UNCHANGED <<logs, next_index>>
C7_StopBuffer(t) ==
    (pc[t] = "stop_logs" /\ pc'[t] = "idle")
        => /\ last' = [op |-> "stop", pid |-> loc[t].pid, ok |-> TRUE]
           /\ DOMAIN logs' = DOMAIN logs \ {loc[t].pid}
           /\ \A k \in DOMAIN logs' : logs'[k] = logs[k]
           /\ UNCHANGED <<daemons, next_index, tasks>>
\* C7: every step of a stop call does exactly what the three cases above say
\* (NotFound changes nothing; a found id loses its registry entry, its task
\* is aborted, then its log buffer is removed, nothing else).
C7_StopFrame ==
    [][/\ C7_StopNotFound
       /\ \A t \in Threads : C7_StopFound(t) /\ C7_StopBuffer(t)]_vars

\* C7 witness: after one instance was stopped and while another is
\* registered with its buffer, a stop has returned NotFound.
C7_Witness ==
    /\ last.op = "stop" /\ ~last.ok
    /\ stopped # {}
    /\ Len(daemons) = 1
    /\ DOMAIN logs # {}

\* The slice get_logs(pid, since) is to return from the buffers lg.
C8_Slice(lg, pid, since, lines) ==
    IF pid \in DOMAIN lg /\ since < Len(lg[pid])
    THEN /\ Len(lines) = Len(lg[pid]) - since
         /\ \A i \in 1 .. Len(lines) : lines[i] = lg[pid][since + i]
    ELSE lines = <<>>

\* C8: every get_logs(id, since) returns, without changing any buffer, the
\* lines at positions since..length-1 of the buffer of id in arrival order
\* when that buffer exists and since < length, and the empty sequence
\* otherwise.
C8_GetLogsSlice ==
    [][(last'.op = "get_logs" /\ last' # last)
          => /\ logs' = logs
             /\ C8_Slice(logs, last'.pid, last'.since, last'.lines)]_vars

\* C8 witness: get_logs(id, 1) has returned the lines from position 1 on of a
\* buffer of at least three lines.
C8_Witness ==
    /\ last.op = "get_logs"
    /\ last.since = 1
    /\ Len(last.lines) >= 2
    /\ last.pid \in DOMAIN logs
    /\ Len(logs[last.pid]) = Len(last.lines) + 1

\* C9: every per-instance log buffer holds at most 500 lines, whatever the
\* number and the source of the appends.
C9_BufferCapped == \A id \in DOMAIN logs : Len(logs[id]) <= LogCap

\* The id carried by the nearest span, from s to the root, that was created
\* with a daemon_instance_id field.
RECURSIVE NearestTag(_)
NearestTag(s) ==
    IF s = 0 THEN None
    ELSE IF spans[s].field # None THEN spans[s].field
    ELSE NearestTag(spans[s].parent)

C10_SpanCarries ==
    \A s \in 1 .. Len(spans) :
        spans[s].ext = IF spans[s].field # None THEN spans[s].field
                       ELSE IF spans[s].parent # 0 THEN spans[spans[s].parent].ext
                       ELSE None
C10_LinesAttributed ==
    \A id \in DOMAIN logs : \A i \in 1 .. Len(logs[id]) :
        /\ logs[id][i].pid = id
        /\ NearestTag(logs[id][i].line.span) = Some(id)
C10_EventStep ==
    nlog' # nlog =>
        LET tag == NearestTag(last'.span) IN
        IF tag # None /\ tag[1] \in DOMAIN logs
        THEN /\ DOMAIN logs' = DOMAIN logs
             /\ \A k \in DOMAIN logs : k # tag[1] => logs'[k] = logs[k]
             /\ Len(logs'[tag[1]]) = Len(logs[tag[1]]) + 1
             /\ logs'[tag[1]][Len(logs'[tag[1]])].pid = tag[1]
             /\ logs'[tag[1]][Len(logs'[tag[1]])].line.span = last'.span
        ELSE logs' = logs

C11_PrimaryIffZero ==
    /\ (last.op = "start" /\ last.ok) => (last.inst.primary <=> last.inst.pid = 0)
    /\ \A i \in 1 .. Len(daemons) :
          daemons[i].info.primary <=> daemons[i].info.pid = 0
    /\ Cardinality({k \in 1 .. Len(returned) : returned[k] = 0}) <= 1

\* C11 witness: instance 0 was started and is gone, the registry is empty
\* but for the instance a later start has just returned, not primary.
C11_Witness ==
    /\ Len(returned) = 2
    /\ returned[1] = 0
    /\ RegisteredPids = {1}
    /\ last.op = "start" /\ last.ok
    /\ last.inst.pid = 1
    /\ ~last.inst.primary

\* C12: when a stop_all that ran with no other manager call in progress
\* returns, the task of every instance that was registered is aborted, the
\* registry is empty (list() returns the empty list) and there is no log
\* buffer (get_logs returns the empty sequence for every id).
C12_StopAllClears ==
    [][\A t \in Threads :
          (/\ pc[t] = "stop_all_logs"
           /\ pc'[t] = "idle"
           /\ loc[t].alone
           /\ \A u \in Threads \ {t} : pc[u] = "idle")
          => /\ daemons' = <<>>
             /\ Retain(daemons)' = <<>>
             /\ logs' = <<>>
             /\ \A id \in Pids : GetLogsOf(logs', id, 0) = <<>>
             /\ \A k \in loc[t].pids : k \in DOMAIN tasks' /\ tasks'[k].aborted]_vars

\* C12 witness: a stop_all has returned after it found two instances
\* registered; both tasks are aborted, nothing is registered or buffered.
C12_Witness ==
    /\ last.op = "stop_all"
    /\ Quiescent
    /\ Len(returned) = 2
    /\ \A k \in {0, 1} : k \in DOMAIN tasks /\ tasks[k].aborted
    /\ stopped = {}
    /\ daemons = <<>>
    /\ logs = <<>>

\* The registered instances whose task has not finished.
C13_Live == {i \in 1 .. Len(daemons) : tasks[daemons[i].info.pid].st # "done"}

\* C13: a list() call returns exactly the descriptors of the registered
\* instances whose task has not finished, in registration order, and leaves
\* exactly those in the registry, unchanged and in the same order.
C13_ListLive ==
    [][(last'.op = "list" /\ pc' = pc /\ (last' # last \/ daemons' # daemons))
          => /\ Len(daemons') = Cardinality(C13_Live)
             /\ \A i \in C13_Live : \E j \in 1 .. Len(daemons') : daemons'[j] = daemons[i]
             /\ \A j \in 1 .. Len(daemons') : \E i \in C13_Live : daemons'[j] = daemons[i]
             /\ \A j \in 1 .. Len(daemons') : \A k \in 1 .. Len(daemons') :
                   j < k => Position(daemons, daemons'[j].info.pid)
                                < Position(daemons, daemons'[k].info.pid)
             /\ last'.insts = [j \in 1 .. Len(daemons') |-> daemons'[j].info]]_vars

\* C13 witness: list() has returned one instance of the two that were
\* started; the other, whose task had finished, is no longer registered and
\* was never stopped.
C13_Witness ==
    /\ last.op = "list"
    /\ Len(last.insts) = 1
    /\ Len(returned) = 2
    /\ stopped = {}
    /\ Len(daemons) = 1
    /\ \E k \in DOMAIN tasks : tasks[k].st = "done" /\ ~tasks[k].aborted
                                  /\ k \notin RegisteredPids

\* C14: when start returns an error, at whatever step, nothing of the
\* attempt is left: the registry has no entry for the attempted id, the log
\* buffer of that id (the only one start writes) is as it was when the call
\* began, there or not, and the counter still holds the attempted id.
C14_FailedStartLeavesNothing ==
    [][\A t \in Threads :
          (InStart(t) /\ pc'[t] = "idle" /\ ~last'.ok)
          => LET id == loc[t].instance_id IN
             /\ \A i \in 1 .. Len(daemons') : daemons'[i].info.pid # id
             /\ BufOf(logs', id) = loc[t].buf0
             /\ next_index' = id]_vars

\* C15: when start fails with InvalidAddress nothing has been allocated for
\* the attempt: no data directory was created, no config.json written or
\* rewritten, no node.key generated, and no log buffer or task exists for
\* the attempted id.
C15_InvalidAddressAllocatesNothing ==
    [][\A t \in Threads :
          (pc[t] = "prepare" /\ pc'[t] = "idle" /\ last'.err = "InvalidAddress")
          => /\ fs'.files = fs.files
             /\ loc[t].instance_id \notin DOMAIN logs'
             /\ loc[t].instance_id \notin DOMAIN tasks']_vars

\* The config step of the start caller t is in will try to write
\* config.json and fail.
C16_WriteWillFail(t) ==
    /\ fs.config_ro
    /\ \/ DirOf(fs.files, loc[t].data_dir).config = None
       \/ loc[t].boot_peers # <<>>

\* C16: a failed write of config.json (the first write or the boot-peer
\* update) never makes start return an error: a start whose write fails
\* returns an error only for the data dir, the key, the secret or the listen
\* address, a start past its failed write always has config_write "failed",
\* and one that returns Ok after it has spawned its task, incremented the
\* counter and returns the descriptor of its id.
C16_ConfigWriteNotFatal ==
    [][\A t \in Threads :
          /\ (pc[t] = "prepare" /\ C16_WriteWillFail(t) /\ pc'[t] = "idle")
                => last'.err \in {"IoError", "KeyError", "InvalidSecret", "InvalidAddress"}
          /\ (pc[t] = "prepare" /\ C16_WriteWillFail(t) /\ pc'[t] = "logbuf")
                => loc'[t].config_write = "failed"
          /\ (pc[t] = "return" /\ loc[t].config_write = "failed")
                => /\ pc'[t] = "idle" => last'.ok
                   /\ pc'[t] = "idle" => last'.inst.pid = loc[t].instance_id
                   /\ pc'[t] = "idle" => next_index' = loc[t].instance_id + 1
                   /\ loc[t].instance_id \in DOMAIN tasks]_vars

\* C16 witness: a start whose config write failed has returned Ok; its
\* instance is registered, its task spawned, and its data directory holds no
\* config.json.
C16_Witness ==
    /\ last.op = "start" /\ last.ok
    /\ last.config_write = "failed"
    /\ last.inst.pid \in RegisteredPids
    /\ last.inst.pid \in DOMAIN tasks
    /\ next_index = last.inst.pid + 1
    /\ DirOf(fs.files, last.inst.data_dir).config = None

\* The registered instances whose task has not finished, in registration
\* order.
C17_LiveSeq == SelectSeq(daemons, LAMBDA d : tasks[d.info.pid].st # "done")

\* The loopback address whose port is the last path component of addr.
C17_PeerOf(addr) ==
    <<Txt("ip4"), Txt("127.0.0.1"), Txt("tcp"),
      IF Len(addr) = 0 THEN Txt("") ELSE addr[Len(addr)]>>

\* C17: the boot peers a start computes are one /ip4/127.0.0.1/tcp/<p> per
\* registered instance whose task has not finished, in registration order,
\* <p> being the last path component of the instance's listen_addr.
C17_BootPeersFromLive ==
    [][\A t \in Threads :
          (pc[t] = "peers" /\ pc'[t] = "prepare")
          => loc'[t].boot_peers =
                [i \in 1 .. Len(C17_LiveSeq) |-> C17_PeerOf(C17_LiveSeq[i].info.listen_addr)]]_vars

\* C19: under concurrent calls every instance in the registry has a log
\* buffer: the id of every registered instance is a key of the log map.
C19_RegisteredHaveBuffers ==
    \A i \in 1 .. Len(daemons) : daemons[i].info.pid \in DOMAIN logs

\* C20: every error return of start happens before the task is spawned: a
\* start that returns an error leaves no task for its id; a start that has
\* spawned its task can only register the instance and then return Ok with
\* its descriptor, and it always does.
C20_ErrorsBeforeSpawn ==
    /\ [][\A t \in Threads :
            (InStart(t) /\ pc'[t] = "idle" /\ ~last'.ok)
            => /\ pc[t] \notin {"register", "return"}
               /\ loc[t].instance_id \notin DOMAIN tasks']_vars
    /\ [][\A t \in Threads :
            /\ (pc[t] = "register" /\ pc'[t] # "register")
                  => /\ pc'[t] = "return"
                     /\ loc[t].instance_id \in DOMAIN tasks
                     /\ \E i \in 1 .. Len(daemons') :
                           daemons'[i].info.pid = loc[t].instance_id
            /\ (pc[t] = "return" /\ pc'[t] # "return")
                  => /\ pc'[t] = "idle"
                     /\ last'.op = "start" /\ last'.ok
                     /\ last'.inst.pid = loc[t].instance_id]_vars
    /\ \A t \in Threads : \A id \in Pids :
          (pc[t] = "register" /\ loc[t].instance_id = id)
             ~> (\E i \in 1 .. Len(returned) : returned[i] = id)

\* C20 witness: one start has spawned, registered and returned Ok, and the
\* latest start failed at its last fallible step, CraftNet, with no task for
\* its id.
C20_Witness ==
    /\ returned # <<>>
    /\ \A i \in 1 .. Len(returned) : returned[i] \in DOMAIN tasks
    /\ last.op = "start" /\ ~last.ok /\ last.err = "CraftNet"
    /\ last.id \notin DOMAIN tasks

\* The buffer of instance k holds a line tagged is_stderr.
C21_ErrorLine(lg, k) ==
    k \in DOMAIN lg /\ \E i \in 1 .. Len(lg[k]) : lg[k][i].is_stderr

\* C21: a failure of the instance task after it was spawned (init failure,
\* IPC server error) leaves, when the task ends, a line tagged is_stderr in
\* the buffer the instance has, and does not touch the registry.
C21_TaskFailureRecorded ==
    [][\A k \in DOMAIN tasks :
          (tasks[k].st \in {"failing", "ipc_error"} /\ tasks'[k].st = "done"
             /\ k \in DOMAIN logs)
          => /\ C21_ErrorLine(logs', k)
             /\ daemons' = daemons]_vars

\* The ws ports of the registered instances whose task has not finished.
C22_TrackedPorts ==
    {daemons[i].info.ws_port :
        i \in {j \in 1 .. Len(daemons) : tasks[daemons[j].info.pid].st # "done"}}

\* The stage of start that precedes stage s.
C22_Before(s) ==
    CASE s = "probe" -> "check"
      [] s = "peers" -> "probe"
      [] s = "prepare" -> "peers"
      [] s = "logbuf" -> "prepare"
      [] s = "spawn" -> "logbuf"
      [] s = "register" -> "spawn"
      [] s = "return" -> "register"

\* C22: a start whose resolved ws_port has a listener on 127.0.0.1 at probe
\* time, a host process or the IPC server of an instance (registered or
\* just stopped), returns the PortInUse error of the probe and changes
\* neither the registry, the counter nor the tasks; and a start returns Ok
\* only through every stage in order, past a tracked-port check that found
\* no unfinished registered instance on the port and a probe that found no
\* listener.
C22_ProbeGuard ==
    [][\A t \in Threads :
          /\ (pc[t] = "probe" /\ pc'[t] # "probe"
                /\ loc[t].ws_port \in fs.listeners \cup TaskListeners)
                => /\ pc'[t] = "idle"
                   /\ last'.op = "start" /\ ~last'.ok
                   /\ last'.err = "PortInUse:probe"
                   /\ UNCHANGED <<daemons, next_index, tasks, logs>>
          /\ (pc[t] = "check" /\ pc'[t] = "probe")
                => loc[t].ws_port \notin C22_TrackedPorts
          /\ (pc'[t] # pc[t] /\ pc'[t] \in {"probe", "peers", "prepare", "logbuf",
                                           "spawn", "register", "return"})
                => pc[t] = C22_Before(pc'[t])
          /\ (InStart(t) /\ pc'[t] = "idle" /\ last'.ok)
                => pc[t] = "return"]_vars

\* C22 witness: a start was refused by the probe on a port that no
\* registered instance and no host process holds: the listener is the IPC
\* server of an instance whose stop has returned and whose task has not
\* ended yet.
C22_Witness ==
    /\ last.op = "start" /\ ~last.ok /\ last.err = "PortInUse:probe"
    /\ last.ws_port \notin fs.listeners
    /\ \A i \in 1 .. Len(daemons) : daemons[i].info.ws_port # last.ws_port
    /\ \E k \in stopped :
          /\ tasks[k].st = "running" /\ tasks[k].aborted
          /\ tasks[k].ws_port = last.ws_port

\* Caller t is inside start at one of its blocking steps: the TCP probe, or
\* the config-file, data-directory and key step.
C23_Blocked(t) == pc[t] \in {"probe", "prepare"}

\* C23: while one start is at a blocking step and every other caller is
\* idle, another caller can begin a stop, a list, a get_logs, and a start
\* that resolves to a different ws port.
C23_BlockedStartStarvesNone ==
    \A t \in Threads : \A u \in Threads \ {t} :
        (C23_Blocked(t) /\ Caller(u))
        => /\ \A pid \in Pids : ENABLED StopRemove(u, pid)
           /\ ENABLED List(u)
           /\ \A pid \in Pids : ENABLED GetLogs(u, pid, 0)
           /\ \A cfg \in Configs :
                 Resolve(cfg, next_index).ws_port # loc[t].ws_port
                 => ENABLED StartCall(u, cfg)

\* C24: the registry lock and the log-buffer lock are independent: the log
\* layer inside an event holds the logs mutex without waiting for the
\* registry lock, and a caller that holds the registry lock is never
\* waiting for the logs mutex.
C24_LocksIndependent ==
    /\ \A k \in Pids : logs_lock = -(k + 1) => ENABLED EventPush(k)
    /\ \A t \in Threads :
          daemons_lock = t => ENABLED (StopLogs(t) \/ StopAllLogs(t))

\* C25: the registry lock is never held by a start that is at its TCP
\* probe, its config-file, data-directory and key step, its log-buffer
\* step or its task spawn.
C25_NoLockAcrossBlocking ==
    \A t \in Threads :
        pc[t] \in {"probe", "prepare", "logbuf", "spawn"} => daemons_lock # t

\* C25 witness: while a start that has passed its checks is at its
\* blocking config and key step, another caller holds the registry lock
\* inside a stop.
C25_Witness ==
    \E t \in Threads : \E u \in Threads \ {t} :
        /\ pc[t] = "prepare"
        /\ pc[u] = "stop_logs"
        /\ daemons_lock = u

\* C26: a start that finds config.json in its data directory and has
\* computed no boot peers does not write the file: after its config step
\* the file, stored boot_peers included, is what it was.
C26_ExistingConfigKept ==
    [][\A t \in Threads :
          (pc[t] = "prepare" /\ pc'[t] # "prepare"
             /\ DirOf(fs.files, loc[t].data_dir).config # None
             /\ loc[t].boot_peers = <<>>)
          => DirOf(fs'.files, loc[t].data_dir).config
                = DirOf(fs.files, loc[t].data_dir).config]_vars

\* C26 witness: a start with no boot peers has returned Ok from a data
\* directory whose config.json, left by an earlier run, still stores boot
\* peers.
C26_Witness ==
    /\ last.op = "start" /\ last.ok
    /\ last.boot_peers = <<>>
    /\ last.config_write = "kept"
    /\ DirOf(fs.files, last.inst.data_dir).config # None
    /\ DirOf(fs.files, last.inst.data_dir).config[1].boot_peers # <<>>

\* A call is in progress, or the log layer is inside an event.
C27_Active == (\E t \in Threads : pc[t] # "idle") \/ logs_lock # 0

\* C27: deadlock freedom: whenever a call or a log-layer callback is in
\* progress one of them can take its next step (they never all wait for a
\* lock); a caller never holds the registry lock without the next step
\* being the logs mutex, and never holds the logs mutex across steps; and
\* every call in progress returns, every callback releases the logs mutex.
C27_DeadlockFree ==
    /\ [](C27_Active =>
            ENABLED (\/ \E t \in Threads : StartStep(t) \/ StopLogs(t) \/ StopAllLogs(t)
                     \/ \E k \in Pids : EventPush(k)))
    /\ [](\A t \in Threads :
            /\ daemons_lock = t => pc[t] \in {"stop_logs", "stop_all_logs"}
            /\ InStart(t) <=> index_lock = t
            /\ logs_lock # t)
    /\ \A t \in Threads : (pc[t] # "idle") ~> (pc[t] = "idle")
    /\ (logs_lock # 0) ~> (logs_lock = 0)

\* C27 witness: the three locks are in use at once: one caller is inside
\* start holding next_index, another is inside a stop holding the registry
\* lock and waiting for the logs mutex, which the log layer holds.
C27_Witness ==
    \E t \in Threads : \E u \in Threads \ {t} :
        /\ InStart(t) /\ index_lock = t
        /\ pc[u] \in {"stop_logs", "stop_all_logs"} /\ daemons_lock = u
        /\ logs_lock < 0

\* C28: since is a position in the buffer as it is now, not an arrival
\* number: of a buffer that holds 500 lines or more, get_logs(id, 500)
\* returns the empty sequence, and get_logs(id, s) for s < 500 returns,
\* from a buffer of tracing events, the events whose arrival numbers are
\* s + 1, s + 2, .. shifted by the number of lines evicted so far.
C28_SinceIsPosition ==
    [][(/\ last'.op = "get_logs" /\ last' # last
        /\ last'.pid \in DOMAIN logs
        /\ Len(logs[last'.pid]) >= LogCap)
          => LET buf == logs[last'.pid] IN
             /\ last'.since = LogCap => last'.lines = <<>>
             /\ (last'.since < LogCap
                   /\ \A j \in 1 .. Len(buf) : buf[j].line.text = "event")
                => \A i \in 1 .. Len(last'.lines) :
                      last'.lines[i].line.n = last'.since + i + (nlog - Len(buf))]_vars

\* Caller t is in a start without a ws_port override whose default port,
\* 9091 + id, is the port of a registered instance whose task has not
\* finished.
C29_DefaultPortTaken(t) ==
    /\ loc[t].cfg.ws_port = None
    /\ loc[t].ws_port = BaseWsPort + loc[t].instance_id
    /\ loc[t].ws_port \in C22_TrackedPorts

\* C29: a start without a port override takes the id of the counter and the
\* port 9091 + id; while a registered unfinished instance holds that port
\* the start returns PortInUse and leaves the counter where it was, so the
\* next one meets the same port; when no such instance is left the tracked
\* check passes, only a listener can still refuse the port, and an Ok
\* return carries that id and port and moves the counter by one.
C29_DefaultPortBlocked ==
    [][\A t \in Threads :
          /\ (pc[t] = "idle" /\ pc'[t] = "check" /\ loc'[t].cfg.ws_port = None)
                => /\ loc'[t].instance_id = next_index
                   /\ loc'[t].ws_port = BaseWsPort + next_index
          /\ (pc[t] = "check" /\ pc'[t] # "check" /\ C29_DefaultPortTaken(t))
                => /\ pc'[t] = "idle"
                   /\ last'.op = "start" /\ ~last'.ok
                   /\ last'.err = "PortInUse:tracked"
                   /\ next_index' = next_index
          /\ (pc[t] = "check" /\ pc'[t] # "check"
                /\ loc[t].ws_port \notin C22_TrackedPorts)
                => pc'[t] = "probe"
          /\ (pc[t] = "probe" /\ pc'[t] = "idle")
                => last'.err = "PortInUse:probe" /\ next_index' = next_index
          /\ (pc[t] = "return" /\ pc'[t] = "idle" /\ loc[t].cfg.ws_port = None)
                => /\ last'.ok
                   /\ last'.inst.pid = next_index
                   /\ last'.inst.ws_port = BaseWsPort + next_index
                   /\ next_index' = next_index + 1]_vars

\* C29 witness: instance 0 was started on the port 9091 + 1, stopped, and
\* its task has ended; a start without overrides has then returned Ok with
\* id 1 on that port, after one more start call than have succeeded.
C29_Witness ==
    /\ last.op = "start" /\ last.ok
    /\ last.cfg.ws_port = None
    /\ last.inst.pid = 1 /\ last.inst.ws_port = BaseWsPort + 1
    /\ 0 \in stopped
    /\ tasks[0].ws_port = BaseWsPort + 1 /\ tasks[0].st = "done"
    /\ returned = <<0, 1>>
    /\ ncalls = 3

====
